---- MODULE Spec2Model ----
(***************************************************************************)
(* Pulse accounting and telemetry reporting of the OXRS flow sensor        *)
(* firmware (src/src/main.cpp): the interrupt handler isr(), the inbound   *)
(* configuration handler _mqttConfig() and the telemetry block of loop().  *)
(*                                                                         *)
(* A uint32_t is a pair <<hi, lo>> of 16-bit limbs (value hi * 2^16 + lo), *)
(* so that the 32-bit width of the counters, of the millisecond clock and  *)
(* of the product pulseCount * 1000 is kept exactly.  An int is an         *)
(* integer in [-2^31, 2^31).                                               *)
(*                                                                         *)
(* The model covers one run of the firmware, from the end of setup() until *)
(* it stops; a restart (ESP.restart(), or the reset that follows a trap)   *)
(* begins another run.                                                     *)
(***************************************************************************)
EXTENDS Integers, Sequences, FiniteSets, TLC

VARIABLES
    telemetryIntervalMs,  \* uint32_t, main.cpp:81
    kFactor,              \* int,      main.cpp:82
    pulseCount,           \* uint32_t, main.cpp:85
    lastTelemetryMs,      \* uint32_t, main.cpp:86
    elapsedTelemetryMs,   \* uint32_t, main.cpp:87
    clock,                \* uint32_t, the value millis() returns
    pc,                   \* position of the cooperative loop (source line)
    json,                 \* the telemetry document built by loop(), main.cpp:537
    inbox,                \* configuration payload handed to _mqttConfig, if any
    publishResult,        \* outcome of publishTelemetry in this tick
    calls,                \* transport calls made in this loop iteration
    lastTick,             \* how the most recent pass of lines 533-546 ended
    edgesLeft,            \* sensor edges still to come (bounds the run)
    totalEdges,           \* history: isr() invocations so far
    windowEdges,          \* history: isr() invocations since the last reset
    deliveredPulses,      \* history: sum of pulseCount over delivered records
    anchorAge             \* history: clock steps since lastTelemetryMs was set

vars == <<telemetryIntervalMs, kFactor, pulseCount, lastTelemetryMs,
          elapsedTelemetryMs, clock, pc, json, inbox, publishResult, calls,
          lastTick, edgesLeft, totalEdges, windowEdges, deliveredPulses,
          anchorAge>>

config  == <<telemetryIntervalMs, kFactor>>
history == <<edgesLeft, totalEdges, windowEdges, deliveredPulses>>

(***************************************************************************)
(* Program constants (main.cpp:52-55).                                     *)
(***************************************************************************)
DEFAULT_TELEMETRY_INTERVAL_MS == 1000
TELEMETRY_INTERVAL_MS_MAX == 60000
DEFAULT_K_FACTOR == 49
K_FACTOR_MAX == 1000

(***************************************************************************)
(* Bounds of the model.                                                    *)
(***************************************************************************)
\* number of sensor edges in a run
MaxEdges == 3
\* the clock advances in steps of 2^(32 - ClockBits) ms, so it takes
\* 2^ClockBits distinct values and wraps past 2^32 like millis()
ClockBits == 2

(***************************************************************************)
(* 32-bit unsigned arithmetic on limb pairs.                               *)
(***************************************************************************)
Limb == 65536
HalfLimb == Limb \div 2

Zero32 == <<0, 0>>
One32  == <<0, 1>>

\* the uint32_t with value n, 0 <= n < 2^31
U32(n) == <<n \div Limb, n % Limb>>

\* conversion int -> uint32_t (value modulo 2^32)
ToU32(i) ==
    IF i >= 0 THEN U32(i)
    ELSE LET n == (i + 2147483647) + 1 IN <<(n \div Limb) + HalfLimb, n % Limb>>

\* conversion uint32_t -> int, the cast (int)x: two's complement
ToInt32(u) ==
    IF u[1] >= HalfLimb THEN (u[1] - Limb) * Limb + u[2] ELSE u[1] * Limb + u[2]

\* the value of a uint32_t below 2^31 as a natural number
ToNat(u) == u[1] * Limb + u[2]

Add32(a, b) ==
    LET lo == a[2] + b[2]
        hi == a[1] + b[1] + (lo \div Limb)
    IN  <<hi % Limb, lo % Limb>>

Sub32(a, b) ==
    LET lo == a[2] - b[2]
        hi == a[1] - b[1] - (IF lo < 0 THEN 1 ELSE 0)
    IN  <<hi % Limb, lo % Limb>>

Lt32(a, b) == a[1] < b[1] \/ (a[1] = b[1] /\ a[2] < b[2])
Ge32(a, b) == ~Lt32(a, b)

\* a * m modulo 2^32, for a small multiplier 0 <= m < 2^15
Mul32(a, m) ==
    LET lo == a[2] * m
        hi == a[1] * m + (lo \div Limb)
    IN  <<hi % Limb, lo % Limb>>

\* unsigned quotient a / d, for a divisor 0 < d < 2^15 or d >= 2^31
Div32(a, d) ==
    IF d[1] = 0
    THEN LET qhi == a[1] \div d[2]
             rem == (a[1] % d[2]) * Limb + a[2]
             qlo == rem \div d[2]
         IN  Add32(<<qhi, 0>>, <<qlo \div Limb, qlo % Limb>>)
    ELSE IF Ge32(a, d) THEN One32 ELSE Zero32

(***************************************************************************)
(* isr(), main.cpp:125-127.  It may run between any two statements of the  *)
(* loop.                                                                   *)
(***************************************************************************)
Isr ==
    /\ pc # "fault"
    /\ edgesLeft > 0
    /\ pulseCount' = Add32(pulseCount, One32)
    /\ edgesLeft' = edgesLeft - 1
    /\ totalEdges' = totalEdges + 1
    /\ windowEdges' = windowEdges + 1
    /\ anchorAge' = anchorAge
    /\ UNCHANGED <<config, lastTelemetryMs, elapsedTelemetryMs, clock, pc, json,
                   inbox, publishResult, calls, lastTick, deliveredPulses>>

(***************************************************************************)
(* The time millis() reports moves on while the loop is inside a library   *)
(* call (_mqtt.loop(), publishTelemetry).                                  *)
(***************************************************************************)
ClockStep == <<2 ^ (16 - ClockBits), 0>>
Delays == {Zero32, ClockStep}

\* the clock steps since the anchor after a further delay d; AgeCap and
\* above stand for 2^32 ms or more
AgeCap == 2 ^ ClockBits
Aged(age, d) ==
    IF d = Zero32 \/ age = AgeCap THEN age ELSE age + 1

(***************************************************************************)
(* _mqttConfig, main.cpp:318-329.  A payload is a record: whether each key *)
(* is present and the int that json[key].as<int>() yields.                 *)
(***************************************************************************)
IntervalInputs == {-1, 0, 999999}
KFactorInputs == {-1, 0, 1, 5000}

Payloads ==
    {[hasInterval |-> FALSE, interval |-> 0, hasK |-> FALSE, k |-> 0]}
    \cup {[hasInterval |-> TRUE, interval |-> t, hasK |-> FALSE, k |-> 0] :
             t \in IntervalInputs}
    \cup {[hasInterval |-> FALSE, interval |-> 0, hasK |-> TRUE, k |-> k] :
             k \in KFactorInputs}
    \cup {[hasInterval |-> TRUE, interval |-> t, hasK |-> TRUE, k |-> k] :
             t \in {999999}, k \in {5000}}

\* min(a, b) on int, main.cpp:322 and 327
ClampNone(v, max) == v
ClampInt(v, max) == IF v < max THEN v ELSE max

\* _mqtt.loop() returns without a configuration message, main.cpp:516
MqttLoopIdle ==
    /\ pc = "L516"
    /\ \E d \in Delays :
          /\ clock' = Add32(clock, d)
          /\ anchorAge' = Aged(anchorAge, d)
    /\ pc' = "L533"
    /\ calls' = 0
    /\ UNCHANGED <<config, pulseCount, lastTelemetryMs, elapsedTelemetryMs,
                   json, inbox, publishResult, lastTick, history>>

\* _mqtt.loop() receives a configuration message and calls _mqttConfig
MqttLoopReceive ==
    /\ pc = "L516"
    /\ \E m \in Payloads : inbox' = <<m>>
    /\ pc' = "L318"
    /\ calls' = 0
    /\ anchorAge' = anchorAge
    /\ UNCHANGED <<config, pulseCount, lastTelemetryMs, elapsedTelemetryMs,
                   clock, json, publishResult, lastTick, history>>

\* a handler that also clears the pending count
MqttConfigResetsCount ==
    /\ pc = "L318"
    /\ LET m == Head(inbox) IN
        /\ telemetryIntervalMs' =
              IF m.hasInterval
              THEN ToU32(ClampInt(m.interval, TELEMETRY_INTERVAL_MS_MAX))
              ELSE telemetryIntervalMs
        /\ kFactor' =
              IF m.hasK THEN ClampInt(m.k, K_FACTOR_MAX) ELSE kFactor
    /\ inbox' = <<>>
    /\ pulseCount' = Zero32
    /\ pc' = "L533"
    /\ anchorAge' = anchorAge
    /\ UNCHANGED <<lastTelemetryMs, elapsedTelemetryMs, clock, json,
                   publishResult, calls, lastTick, history>>

MqttConfig ==
    /\ pc = "L318"
    /\ LET m == Head(inbox) IN
        /\ telemetryIntervalMs' =
              IF m.hasInterval
              THEN ToU32(ClampInt(m.interval, TELEMETRY_INTERVAL_MS_MAX))
              ELSE telemetryIntervalMs
        /\ kFactor' =
              IF m.hasK THEN ClampInt(m.k, K_FACTOR_MAX) ELSE kFactor
    /\ inbox' = <<>>
    /\ pc' = "L533"
    /\ anchorAge' = anchorAge
    /\ UNCHANGED <<pulseCount, lastTelemetryMs, elapsedTelemetryMs, clock, json,
                   publishResult, calls, lastTick, history>>

(***************************************************************************)
(* The telemetry block of loop(), main.cpp:533-546, one action per         *)
(* statement.                                                              *)
(***************************************************************************)
NoJson == [elapsedMs |-> Zero32, pulseCount |-> Zero32, volumeMls |-> 0]

\* millis() - lastTelemetryMs on uint32_t, main.cpp:533
ElapsedNoAnchor(now, last) == now
ElapsedNoWrap(now, last) == IF Lt32(now, last) THEN Zero32 ELSE Sub32(now, last)
Elapsed(now, last) == Sub32(now, last)

\* elapsedTelemetryMs >= telemetryIntervalMs, main.cpp:534
Expired(elapsed, interval) == Ge32(elapsed, interval)

\* (int)(pulseCount * 1000 / kFactor), main.cpp:540, for kFactor # 0
\* the volume computed with the default calibration factor
VolumeMlsDefaultK(p, k) ==
    ToInt32(Div32(Mul32(p, 1000), ToU32(DEFAULT_K_FACTOR)))
VolumeMls(p, k) == ToInt32(Div32(Mul32(p, 1000), ToU32(k)))

Loop533 ==
    /\ pc = "L533"
    /\ elapsedTelemetryMs' = Elapsed(clock, lastTelemetryMs)
    /\ IF Expired(elapsedTelemetryMs', telemetryIntervalMs)
       THEN pc' = "L538" /\ lastTick' = lastTick
       ELSE pc' = "L516" /\ lastTick' = "noop"
    /\ anchorAge' = anchorAge
    /\ UNCHANGED <<config, pulseCount, lastTelemetryMs, clock, json, inbox,
                   publishResult, calls, history>>

Loop538 ==
    /\ pc = "L538"
    /\ json' = [json EXCEPT !.elapsedMs = elapsedTelemetryMs]
    /\ pc' = "L539"
    /\ anchorAge' = anchorAge
    /\ UNCHANGED <<config, pulseCount, lastTelemetryMs, elapsedTelemetryMs,
                   clock, inbox, publishResult, calls, lastTick, history>>

Loop539 ==
    /\ pc = "L539"
    /\ json' = [json EXCEPT !.pulseCount = pulseCount]
    /\ pc' = "L540"
    /\ anchorAge' = anchorAge
    /\ UNCHANGED <<config, pulseCount, lastTelemetryMs, elapsedTelemetryMs,
                   clock, inbox, publishResult, calls, lastTick, history>>

\* pulseCount is not volatile: line 540 uses a fresh load or the value
\* loaded for line 539, as the build decides
Loop540 ==
    /\ pc = "L540"
    /\ kFactor # 0
    /\ \E p \in {pulseCount, json.pulseCount} :
          json' = [json EXCEPT !.volumeMls = VolumeMls(p, kFactor)]
    /\ pc' = "L541"
    /\ anchorAge' = anchorAge
    /\ UNCHANGED <<config, pulseCount, lastTelemetryMs, elapsedTelemetryMs,
                   clock, inbox, publishResult, calls, lastTick, history>>

\* kFactor = 0: the integer division by zero traps and the firmware stops
Loop540DivideByZero ==
    /\ pc = "L540"
    /\ kFactor = 0
    /\ pc' = "fault"
    /\ anchorAge' = anchorAge
    /\ UNCHANGED <<config, pulseCount, lastTelemetryMs, elapsedTelemetryMs,
                   clock, json, inbox, publishResult, calls, lastTick, history>>

\* _mqtt.publishTelemetry(json): the transport delivers the record or not;
\* loop() discards the result
Loop541 ==
    /\ pc = "L541"
    /\ \E ok \in BOOLEAN :
          /\ publishResult' = IF ok THEN "ok" ELSE "fail"
          /\ deliveredPulses' =
                IF ok THEN deliveredPulses + ToNat(json.pulseCount)
                ELSE deliveredPulses
    /\ \E d \in Delays :
          /\ clock' = Add32(clock, d)
          /\ anchorAge' = Aged(anchorAge, d)
    /\ calls' = calls + 1
    /\ pc' = "L544"
    /\ UNCHANGED <<config, pulseCount, lastTelemetryMs, elapsedTelemetryMs,
                   json, inbox, lastTick, edgesLeft, totalEdges, windowEdges>>

Loop544 ==
    /\ pc = "L544"
    /\ lastTelemetryMs' = clock
    /\ anchorAge' = 0
    /\ pc' = "L545"
    /\ UNCHANGED <<config, pulseCount, elapsedTelemetryMs, clock, json, inbox,
                   publishResult, calls, lastTick, history>>

Loop545 ==
    /\ pc = "L545"
    /\ pulseCount' = Zero32
    /\ windowEdges' = 0
    /\ lastTick' = publishResult
    /\ publishResult' = "none"
    /\ json' = NoJson
    /\ pc' = "L516"
    /\ anchorAge' = anchorAge
    /\ UNCHANGED <<config, lastTelemetryMs, elapsedTelemetryMs, clock, inbox,
                   calls, edgesLeft, totalEdges, deliveredPulses>>

(***************************************************************************)
(* The program after setup(): the globals of main.cpp:81-87.               *)
(***************************************************************************)
Init ==
    /\ telemetryIntervalMs = U32(DEFAULT_TELEMETRY_INTERVAL_MS)
    /\ kFactor = DEFAULT_K_FACTOR
    /\ pulseCount = Zero32
    /\ lastTelemetryMs = Zero32
    /\ elapsedTelemetryMs = Zero32
    /\ clock = Zero32
    /\ pc = "L516"
    /\ json = NoJson
    /\ inbox = <<>>
    /\ publishResult = "none"
    /\ calls = 0
    /\ lastTick = "none"
    /\ edgesLeft = MaxEdges
    /\ totalEdges = 0
    /\ windowEdges = 0
    /\ deliveredPulses = 0
    /\ anchorAge = 0

Next ==
    \/ Isr
    \/ MqttLoopIdle
    \/ MqttLoopReceive
    \/ MqttConfig
    \/ Loop533
    \/ Loop538
    \/ Loop539
    \/ Loop540
    \/ Loop540DivideByZero
    \/ Loop541
    \/ Loop544
    \/ Loop545

Spec == Init /\ [][Next]_vars

(***************************************************************************)
(* A second starting point, for the conversion of line 540: the firmware   *)
(* with a large pending count (the stored interval was long, or the loop   *)
(* was held up) and a calibration factor of the documented domain.         *)
(***************************************************************************)
PulseSamples == {49, 2147484, 4294967, 4294968}
KFactorSamples == {1, 49, K_FACTOR_MAX}

InitConv ==
    /\ telemetryIntervalMs = U32(DEFAULT_TELEMETRY_INTERVAL_MS)
    /\ kFactor \in KFactorSamples
    /\ \E p \in PulseSamples :
          /\ pulseCount = U32(p)
          /\ totalEdges = p
          /\ windowEdges = p
    /\ lastTelemetryMs = Zero32
    /\ elapsedTelemetryMs = Zero32
    /\ clock = Zero32
    /\ pc = "L516"
    /\ json = NoJson
    /\ inbox = <<>>
    /\ publishResult = "none"
    /\ calls = 0
    /\ lastTick = "none"
    /\ edgesLeft = MaxEdges
    /\ deliveredPulses = 0
    /\ anchorAge = 0

SpecConv == InitConv /\ [][Next]_vars

(***************************************************************************)
(* Mathematics used to state the properties.                               *)
(***************************************************************************)
Min(a, b) == IF a < b THEN a ELSE b

\* the uint32_t u holds the integer i
HoldsInt(u, i) == i >= 0 /\ u = U32(i)

\* floor(p * m / k) over the unbounded integers, as three limbs, for a
\* uint32_t p and 0 < m, k < 2^15
WideQuotient(p, m, k) ==
    LET lo  == p[2] * m
        mid == p[1] * m + (lo \div Limb)
        top == mid \div Limb
        t1  == (top % k) * Limb + (mid % Limb)
        t0  == (t1 % k) * Limb + (lo % Limb)
    IN  <<top \div k, t1 \div k, t0 \div k>>

\* the int v is floor(p * m / k)
IsFloorQuotient(v, p, m, k) ==
    v >= 0 /\ <<0, v \div Limb, v % Limb>> = WideQuotient(p, m, k)

(***************************************************************************)
(* C1 (no loss): at the reset of line 545, the count reported by this tick *)
(* plus the count left after the reset equals the number of edges since    *)
(* the previous reset.                                                     *)
(***************************************************************************)
NoLossReadAndReset ==
    [][(pc = "L545" /\ pc' = "L516")
         => ToNat(json.pulseCount) + ToNat(pulseCount') = windowEdges]_vars

(***************************************************************************)
(* C2 (retry preserving): after a failed delivery the tick changes neither *)
(* lastTelemetryMs nor pulseCount (edges may still add to pulseCount), and *)
(* lastTelemetryMs changes only in a tick whose delivery succeeded.        *)
(***************************************************************************)
RetryPreserving ==
    [][/\ (publishResult = "fail")
             => /\ lastTelemetryMs' = lastTelemetryMs
                /\ pulseCount' \in {pulseCount, Add32(pulseCount, One32)}
       /\ (lastTelemetryMs' # lastTelemetryMs) => publishResult = "ok"]_vars

(***************************************************************************)
(* C3 (pulse conservation): between ticks, the pulses of all delivered     *)
(* records plus the pending count equal the number of edges so far.        *)
(***************************************************************************)
PulseConservation ==
    pc = "L516" => deliveredPulses + ToNat(pulseCount) = totalEdges

(***************************************************************************)
(* C4 (no-op tick): a pass of line 533 made before the interval has expired *)
(* ends the loop iteration without a transport call and leaves pulseCount, *)
(* lastTelemetryMs, telemetryIntervalMs and kFactor as they were.          *)
(***************************************************************************)
IdempotentNoOpTick ==
    [][(/\ pc = "L533"
        /\ pc' # pc
        /\ Lt32(Sub32(clock, lastTelemetryMs), telemetryIntervalMs))
         => /\ pc' = "L516"
            /\ calls' = 0
            /\ UNCHANGED <<pulseCount, lastTelemetryMs, telemetryIntervalMs,
                           kFactor>>]_vars

\* a pass that did not report, with pulses pending after an earlier report
WitnessNoOpTick ==
    /\ pc = "L516"
    /\ lastTick = "noop"
    /\ lastTelemetryMs # Zero32
    /\ pulseCount # Zero32
    /\ Lt32(elapsedTelemetryMs, telemetryIntervalMs)

(***************************************************************************)
(* C5 (division defined): whenever the volume is computed kFactor is at    *)
(* least 1, and the division never divides by zero.                        *)
(***************************************************************************)
DivisionDefined ==
    /\ pc = "L540" => kFactor >= 1
    /\ pc # "fault"

(***************************************************************************)
(* C6 (conversion): for kFactor in [1, 1000] the volume written at line    *)
(* 540 is floor(pulseCount * 1000 / kFactor) over the unbounded integers.  *)
(***************************************************************************)
ConversionExact ==
    [][(pc = "L540" /\ pc' = "L541" /\ kFactor \in 1..K_FACTOR_MAX)
         => \E p \in {pulseCount, json.pulseCount} :
               IsFloorQuotient(json'.volumeMls, p, 1000, kFactor)]_vars

ConfigDomain ==
    /\ Ge32(telemetryIntervalMs, One32)
    /\ Ge32(U32(TELEMETRY_INTERVAL_MS_MAX), telemetryIntervalMs)
    /\ kFactor \in 1..K_FACTOR_MAX

(***************************************************************************)
(* C9 (successful-tick commit): the record carries the elapsed time of     *)
(* line 533, the pending count and its volume; after a successful delivery *)
(* lastTelemetryMs becomes the old lastTelemetryMs plus the reported       *)
(* elapsedMs, and pulseCount becomes 0.                                    *)
(***************************************************************************)
SuccessfulTickCommit ==
    [][/\ (pc = "L538" /\ pc' = "L539")
             => json'.elapsedMs = Sub32(clock, lastTelemetryMs)
       /\ (pc = "L539" /\ pc' = "L540") => json'.pulseCount = pulseCount
       /\ (pc = "L540" /\ pc' = "L541")
             => \E p \in {pulseCount, json.pulseCount} :
                   json'.volumeMls = VolumeMls(p, kFactor)
       /\ (pc = "L544" /\ pc' = "L545" /\ publishResult = "ok")
             => lastTelemetryMs' = Add32(lastTelemetryMs, json.elapsedMs)
       /\ (pc = "L545" /\ pc' = "L516" /\ publishResult = "ok")
             => pulseCount' = Zero32]_vars

(***************************************************************************)
(* The firmware with its default configuration under a fair schedule: the  *)
(* Arduino core calls loop() again and again, millis() moves on while      *)
(* loop() waits in _mqtt.loop(), and the transport delivers a record again *)
(* and again.                                                              *)
(***************************************************************************)
LoopStep ==
    \/ MqttLoopIdle
    \/ Loop533
    \/ Loop538
    \/ Loop539
    \/ Loop540
    \/ Loop541
    \/ Loop544
    \/ Loop545

NextFair == Isr \/ LoopStep

FairSpec ==
    /\ Init
    /\ [][NextFair]_vars
    /\ WF_vars(LoopStep)
    /\ SF_vars(MqttLoopIdle /\ clock' # clock)
    /\ SF_vars(Loop541 /\ publishResult' = "ok")

(***************************************************************************)
(* C10 (eventual reporting): under the fair schedule every edge counted by *)
(* isr() is eventually part of the pulseCount of a delivered record.       *)
(***************************************************************************)
EventualReporting ==
    \A n \in 1..MaxEdges : (totalEdges >= n) ~> (deliveredPulses >= n)

(***************************************************************************)
(* C11 (record self-consistency): in the record handed to the transport,   *)
(* volumeMls is the volume of the pulseCount the same record carries.      *)
(***************************************************************************)
RecordSelfConsistent ==
    pc = "L541" => json.volumeMls = VolumeMls(json.pulseCount, kFactor)

(***************************************************************************)
(* C12 (immediate retry): with the configuration unchanged, the pass of    *)
(* line 533 that follows a failed delivery finds the interval expired      *)
(* again and goes on to report.                                            *)
(***************************************************************************)
ImmediateRetry ==
    [][(pc = "L533" /\ pc' # pc /\ lastTick = "fail") => pc' = "L538"]_vars

(***************************************************************************)
(* C13 (wraparound-safe scheduling): while less than 2^32 ms have passed   *)
(* since the anchor, the elapsed time computed at line 533 is the true     *)
(* time since the anchor, also when the clock has wrapped past 2^32 in     *)
(* between, and the tick reports exactly when that time has reached        *)
(* telemetryIntervalMs.                                                    *)
(***************************************************************************)
\* the true time since the anchor, for anchorAge < AgeCap
TrueElapsed == <<anchorAge * 2 ^ (16 - ClockBits), 0>>

WraparoundSafe ==
    [][(pc = "L533" /\ pc' # pc /\ anchorAge < AgeCap)
         => /\ elapsedTelemetryMs' = TrueElapsed
            /\ (pc' = "L538") <=> Ge32(TrueElapsed, telemetryIntervalMs)
            /\ (pc' = "L516") <=> Lt32(TrueElapsed, telemetryIntervalMs)]_vars

\* a report decided with the clock wrapped past 2^32 since the anchor
WitnessWrapped ==
    /\ pc = "L538"
    /\ Lt32(clock, lastTelemetryMs)
    /\ anchorAge \in 1..(AgeCap - 1)
    /\ elapsedTelemetryMs = TrueElapsed

(***************************************************************************)
(* C14 (ownership): isr() adds exactly one to pulseCount (modulo 2^32) and *)
(* leaves lastTelemetryMs, telemetryIntervalMs and kFactor alone; the      *)
(* statements of the tick never change telemetryIntervalMs or kFactor;     *)
(* _mqttConfig never changes pulseCount or lastTelemetryMs; pulseCount     *)
(* changes only by isr()'s increment and by the reset to zero of line 545. *)
(***************************************************************************)
TickPositions == {"L533", "L538", "L539", "L540", "L541", "L544", "L545"}

Ownership ==
    [][/\ (totalEdges' # totalEdges)
             => /\ pulseCount' = Add32(pulseCount, One32)
                /\ UNCHANGED <<lastTelemetryMs, telemetryIntervalMs, kFactor>>
       /\ (pc \in TickPositions /\ pc' # pc)
             => UNCHANGED <<telemetryIntervalMs, kFactor>>
       /\ (pc = "L318" /\ pc' # pc)
             => UNCHANGED <<pulseCount, lastTelemetryMs>>
       /\ (pulseCount' # pulseCount)
             => \/ totalEdges' # totalEdges
                \/ pc = "L545" /\ pc' = "L516" /\ pulseCount' = Zero32]_vars

\* edges, a reporting tick and a configuration change have all happened,
\* and an edge counted since the reset is pending
WitnessOwnership ==
    /\ totalEdges >= 2
    /\ lastTick \in {"ok", "fail"}
    /\ kFactor = K_FACTOR_MAX
    /\ telemetryIntervalMs = U32(TELEMETRY_INTERVAL_MS_MAX)
    /\ pulseCount = One32
    /\ lastTelemetryMs # Zero32

(***************************************************************************)
(* C15 (configuration takes effect at the next tick): line 534 compares    *)
(* with the telemetryIntervalMs stored when the tick runs and line 540     *)
(* divides by the kFactor stored when the tick runs, whatever the values   *)
(* were while the time and the pulses accumulated.                         *)
(***************************************************************************)
ConfigAtTick ==
    [][/\ (pc = "L533" /\ pc' # pc)
             => (pc' = "L538"
                   <=> Ge32(Sub32(clock, lastTelemetryMs), telemetryIntervalMs))
       /\ (pc = "L540" /\ pc' = "L541")
             => \E p \in {pulseCount, json.pulseCount} :
                   json'.volumeMls =
                      ToInt32(Div32(Mul32(p, 1000), ToU32(kFactor)))]_vars

\* after a pass that did not report: pulses counted under kFactor 49 are
\* converted with the new kFactor 1, and the interval lowered to 0 makes
\* the next tick report at once
WitnessConfigAtTick ==
    /\ pc = "L541"
    /\ kFactor = 1
    /\ telemetryIntervalMs = Zero32
    /\ elapsedTelemetryMs = Zero32
    /\ json.pulseCount = U32(2)
    /\ json.volumeMls = 2000
    /\ lastTick = "noop"

(***************************************************************************)
(* C16 (unsigned volume): for kFactor in [1, 1000] the volumeMls of the    *)
(* record handed to the transport is not negative.                         *)
(***************************************************************************)
VolumeNonNegative ==
    (pc = "L541" /\ kFactor \in 1..K_FACTOR_MAX) => json.volumeMls >= 0

(***************************************************************************)
(* C17 (report gating): a loop iteration makes at most one transport call; *)
(* an iteration that found the interval expired makes exactly one before   *)
(* it ends; the record handed to the transport carries an elapsedMs of at  *)
(* least the stored telemetryIntervalMs.                                   *)
(***************************************************************************)
ReportGating ==
    /\ calls <= 1
    /\ pc \in {"L538", "L539", "L540", "L541"} => calls = 0
    /\ pc \in {"L544", "L545", "fault"} => calls = 1
    /\ pc \in {"L541", "L544", "L545"}
          => Ge32(json.elapsedMs, telemetryIntervalMs)

====
